---- MODULE Spec2Model ----
(***************************************************************************)
(* Model of the C/C++ Header Guard Buddy extension (src/src/extention.ts): *)
(* the detection of `#pragma once` and of a classic include guard, the     *)
(* derivation of the guard macro from the file path, and the three         *)
(* commands InsertGuard, UsePragmaOnce and Toggle with the edit batch each *)
(* of them hands to the editor host.                                       *)
(*                                                                         *)
(* Text is modelled at two levels.  A file path and a macro are sequences  *)
(* of one-character strings.  A document is a sequence of lines; a line is *)
(* a record [k, name]: k is the shape of the line as the regular           *)
(* expressions of the source see it, name is the identifier that follows   *)
(* `#ifndef` / `#define`, or the word of the trailing comment of `#endif`. *)
(* Line indices are zero-based as in the source: line i is doc[i + 1].     *)
(*                                                                         *)
(* Four specifications share the variables.  Spec runs the commands on     *)
(* short documents of every line shape; ConvertSpec runs them on longer    *)
(* documents made of guard directives and comments; MacroSpec applies      *)
(* computeMacro to a set of paths; ScanSpec applies hasPragmaOnce and      *)
(* extractGuardMacro to documents that reach the scan limits.              *)
(***************************************************************************)
EXTENDS Naturals, Integers, Sequences, FiniteSets, TLC

VARIABLES
    file,       \* the document's path: [dir, base, ws]
    doc,        \* the host's document: a sequence of lines
    version,    \* the host's document version, bumped by every applied edit
    inflight,   \* commands suspended at `await ed.edit(...)`
    hist,       \* the last two completed commands, older first (history)
    status,     \* statusItem.text, or "hidden"
    ops         \* number of commands invoked so far

vars == <<file, doc, version, inflight, hist, status, ops>>

----------------------------------------------------------------------------
(* Bounds of the model *)

MaxLines == 3
MaxOps == 2
MaxInFlight == 2
MaxStem == 2

----------------------------------------------------------------------------
(* Characters *)

LowerLetters == <<"a", "b", "c", "h", "m", "p", "s", "x">>
UpperLetters == <<"A", "B", "C", "H", "M", "P", "S", "X">>
Digits == {"0", "1"}
Punct == {".", "_", "-", "/"}
\* a letter outside ASCII whose upper case is two letters
SharpS == "ß"

Range(s) == {s[i] : i \in DOMAIN s}

Letters == Range(LowerLetters) \cup Range(UpperLetters)
Chars == Letters \cup Digits \cup Punct \cup {SharpS}

\* String.prototype.toUpperCase of one character: the upper-case letter of
\* a lower-case letter, "SS" for the sharp s, the character itself otherwise
UpperOf ==
    [c \in Chars |->
        IF c = SharpS THEN <<"S", "S">>
        ELSE IF \E i \in DOMAIN LowerLetters : LowerLetters[i] = c
        THEN <<UpperLetters[CHOOSE i \in DOMAIN LowerLetters :
                                LowerLetters[i] = c]>>
        ELSE <<c>>]

\* String.prototype.toLowerCase, character by character
LowerOf ==
    [c \in Chars |->
        IF \E i \in DOMAIN UpperLetters : UpperLetters[i] = c
        THEN LowerLetters[CHOOSE i \in DOMAIN UpperLetters : UpperLetters[i] = c]
        ELSE c]

RECURSIVE toUpperCase(_)
toUpperCase(s) ==
    IF s = <<>> THEN <<>> ELSE UpperOf[Head(s)] \o toUpperCase(Tail(s))
toLowerCase(s) == [i \in DOMAIN s |-> LowerOf[s[i]]]

\* the character class [A-Z0-9]
UpperAlnum == Range(UpperLetters) \cup Digits
IsUpperAlnum(c) == c \in UpperAlnum
\* the character class [A-Z0-9_] of the #ifndef capture
MacroChars == UpperAlnum \cup {"_"}
IsMacroChar(c) == c \in MacroChars
\* the regular expression class \w, whose edge is \b
WordChars == Letters \cup Digits \cup {"_"}
IsWordChar(c) == c \in WordChars

EndsWith(s, suf) ==
    /\ Len(s) >= Len(suf)
    /\ SubSeq(s, Len(s) - Len(suf) + 1, Len(s)) = suf

StartsWith(s, pre) ==
    /\ Len(s) >= Len(pre)
    /\ SubSeq(s, 1, Len(pre)) = pre

----------------------------------------------------------------------------
(* Paths *)

\* doc.fileName below the workspace folder (or the file's own folder)
fileName(f) == IF f.dir = <<>> THEN f.base ELSE f.dir \o <<"/">> \o f.base

\* path.basename(doc.fileName)
basename(f) == f.base

\* path.relative(ws.uri.fsPath, doc.fileName)
relative(f) == fileName(f)

\* path.extname: from the last "." of the base name to its end; empty when
\* there is none or when the only "." is the first character
extname(f) ==
    LET b == basename(f)
        dots == {i \in DOMAIN b : b[i] = "."}
        last == CHOOSE i \in dots : \A j \in dots : j <= i
    IN  IF dots = {} \/ last = 1 THEN <<>> ELSE SubSeq(b, last, Len(b))

HeaderExts ==
    { <<".", "h">>, <<".", "h", "p", "p">>, <<".", "h", "h">>,
      <<".", "h", "x", "x">> }

isHeader(f) == toLowerCase(extname(f)) \in HeaderExts

MacroSuffixes ==
    { <<"_", "H">>, <<"_", "H", "P", "P">>, <<"_", "H", "H">>,
      <<"_", "H", "X", "X">> }

computeMacro(f) ==
    LET rel == IF f.ws THEN relative(f) ELSE basename(f)
        up == toUpperCase(rel)
        macro == [i \in DOMAIN up |-> IF IsUpperAlnum(up[i]) THEN up[i] ELSE "_"]
    IN  IF \E s \in MacroSuffixes : EndsWith(macro, s)
        THEN macro ELSE macro \o <<"_", "H">>

----------------------------------------------------------------------------
(* Lines *)

Line(k, name) == [k |-> k, name |-> name]

Blank == Line("blank", <<>>)                \* "" (or white space only)
LineComment == Line("lcomment", <<>>)       \* "// ..."
BlockComment == Line("bcomment", <<>>)      \* "/* ..."
Code == Line("code", <<>>)                  \* any other text, e.g. "int x;"
PragmaOnce == Line("pragma", <<>>)          \* "#pragma once"
Ifndef(name) == Line("ifndef", name)        \* "#ifndef <name>"
Define(name) == Line("define", name)        \* "#define <name>"
Endif(name) == Line("endif", name)          \* "#endif" or "#endif // <name>"

\* line.length
TextLen(l) ==
    CASE l.k = "blank" -> 0
      [] l.k = "lcomment" -> 4
      [] l.k = "bcomment" -> 4
      [] l.k = "code" -> 6
      [] l.k = "pragma" -> 12
      [] l.k = "ifndef" -> 8 + Len(l.name)
      [] l.k = "define" -> 8 + Len(l.name)
      [] l.k = "endif" -> IF l.name = <<>> THEN 6 ELSE 10 + Len(l.name)

\* doc.lineAt(i), i zero-based
lineAt(d, i) == d[i + 1]
lineCount(d) == Len(d)

Min(a, b) == IF a <= b THEN a ELSE b

\* /^\s*#\s*pragma\s+once\b/.test(t)
MatchesPragma(l) == l.k = "pragma"

\* t.trim() is non-empty
TrimNonEmpty(l) == l.k # "blank"

\* (mutant) the test without its clause for '/*'
SubstantiveBlockComment(l) == TrimNonEmpty(l) /\ l.k # "lcomment"

\* t.trim() && !t.trim().startsWith('//') && !t.trim().startsWith('/*')
Substantive(l) == TrimNonEmpty(l) /\ l.k # "lcomment" /\ l.k # "bcomment"

\* the longest prefix of s made of [A-Z0-9_] (the greedy capture group)
RECURSIVE MacroPrefix(_)
MacroPrefix(s) ==
    IF s = <<>> \/ ~IsMacroChar(Head(s)) THEN <<>>
    ELSE <<Head(s)>> \o MacroPrefix(Tail(s))

\* text.match(/^\s*#\s*ifndef\s+([A-Z0-9_]+)/): the capture, <<>> for no match
IfndefCapture(l) == IF l.k = "ifndef" THEN MacroPrefix(l.name) ELSE <<>>

\* new RegExp(`^\\s*#\\s*define\\s+${macro}\\b`).test(text)
MatchesDefine(l, macro) ==
    /\ l.k = "define"
    /\ StartsWith(l.name, macro)
    /\ (Len(l.name) = Len(macro) \/ ~IsWordChar(l.name[Len(macro) + 1]))

\* /^\s*#\s*endif\b/.test(text)
MatchesEndif(l) == l.k = "endif"

\* new RegExp(`^\\s*#\\s*endif\\b.*\\b${macro}\\b`).test(t): the macro is a
\* whole word of the rest of the line, which here is one word or nothing
MatchesEndifOf(l, macro) == l.k = "endif" /\ l.name = macro

----------------------------------------------------------------------------
(* Detection *)

PragmaScanLimit == 50
GuardScanLimit == 60
DefineLookahead == 6

\* the loop of hasPragmaOnce from index i on
RECURSIVE PragmaScan(_, _)
PragmaScan(d, i) ==
    IF i >= Min(PragmaScanLimit, lineCount(d)) THEN FALSE
    ELSE IF MatchesPragma(lineAt(d, i)) THEN TRUE
    ELSE IF Substantive(lineAt(d, i)) THEN FALSE
    ELSE PragmaScan(d, i + 1)

hasPragmaOnce(d) == PragmaScan(d, 0)

\* (mutant) the outer loop going on to a later #ifndef when the #define of
\* one is not found
RECURSIVE FirstIfndefWithDefine(_, _, _)
FirstIfndefWithDefine(d, i, maxTop) ==
    IF i >= maxTop THEN -1
    ELSE IF /\ IfndefCapture(lineAt(d, i)) # <<>>
            /\ \E j \in i + 1 .. Min(i + 5, maxTop - 1) :
                   MatchesDefine(lineAt(d, j), IfndefCapture(lineAt(d, i)))
    THEN i
    ELSE FirstIfndefWithDefine(d, i + 1, maxTop)

\* the outer loop of extractGuardMacro: the first #ifndef below maxTop, or -1
RECURSIVE FirstIfndef(_, _, _)
FirstIfndef(d, i, maxTop) ==
    IF i >= maxTop THEN -1
    ELSE IF IfndefCapture(lineAt(d, i)) # <<>> THEN i
    ELSE FirstIfndef(d, i + 1, maxTop)

\* (mutant) the inner loop taking the #define of any macro
RECURSIVE FirstDefineAnyMacro(_, _, _, _)
FirstDefineAnyMacro(d, j, hi, macro) ==
    IF j >= hi THEN -1
    ELSE IF lineAt(d, j).k = "define" THEN j
    ELSE FirstDefineAnyMacro(d, j + 1, hi, macro)

\* the inner loop: the first #define of the macro in j .. hi - 1, or -1
RECURSIVE FirstDefine(_, _, _, _)
FirstDefine(d, j, hi, macro) ==
    IF j >= hi THEN -1
    ELSE IF MatchesDefine(lineAt(d, j), macro) THEN j
    ELSE FirstDefine(d, j + 1, hi, macro)

\* (mutant) the loop run top-down: the first #endif naming the macro, or -1
FirstEndifOf(d, k, macro) ==
    LET S == {i \in 0 .. k : MatchesEndifOf(lineAt(d, i), macro)}
    IN  IF S = {} THEN -1 ELSE CHOOSE i \in S : \A j \in S : i <= j

\* the first bottom-up loop: the last #endif naming the macro, or -1
RECURSIVE LastEndifOf(_, _, _)
LastEndifOf(d, k, macro) ==
    IF k < 0 THEN -1
    ELSE IF MatchesEndifOf(lineAt(d, k), macro) THEN k
    ELSE LastEndifOf(d, k - 1, macro)

\* (mutant) the fallback loop started one line above the last line
LastEndifAboveLast(d, k) ==
    LET S == {i \in 0 .. k - 1 : MatchesEndif(lineAt(d, i))}
    IN  IF S = {} THEN -1 ELSE CHOOSE i \in S : \A j \in S : j <= i

\* the fallback loop: the last #endif, or -1
RECURSIVE LastEndif(_, _)
LastEndif(d, k) ==
    IF k < 0 THEN -1
    ELSE IF MatchesEndif(lineAt(d, k)) THEN k
    ELSE LastEndif(d, k - 1)

NoGuard ==
    [found |-> FALSE, macro |-> <<>>, ifndefLine |-> -1, defineLine |-> -1,
     endifLine |-> -1]

extractGuardMacro(d) ==
    LET maxTop == Min(GuardScanLimit, lineCount(d))
        ifndefLine == FirstIfndef(d, 0, maxTop)
        macro == IF ifndefLine = -1 THEN <<>>
                 ELSE IfndefCapture(lineAt(d, ifndefLine))
        defineLine ==
            IF ifndefLine = -1 THEN -1
            ELSE FirstDefine(d, ifndefLine + 1,
                             Min(ifndefLine + DefineLookahead, maxTop), macro)
        annotated == LastEndifOf(d, lineCount(d) - 1, macro)
        endif == IF annotated # -1 THEN annotated
                 ELSE LastEndif(d, lineCount(d) - 1)
    IN  IF macro = <<>> \/ defineLine = -1 THEN NoGuard
        ELSE IF endif = -1 THEN NoGuard
        ELSE [found |-> TRUE, macro |-> macro, ifndefLine |-> ifndefLine,
              defineLine |-> defineLine, endifLine |-> endif]

\* the protection state, as updateStatusBarForDoc derives it
ProtectionState(d) ==
    IF hasPragmaOnce(d) THEN "PragmaOnce"
    ELSE IF extractGuardMacro(d).found THEN "Guard"
    ELSE "None"

\* statusItem after updateStatusBarForDoc(doc)
updateStatusBarForDoc(f, d) ==
    IF ~isHeader(f) THEN "hidden" ELSE ProtectionState(d)

----------------------------------------------------------------------------
(* The editor host's edit builder: ed.edit(builder => ...) *)

\* builder.insert(new vscode.Position(line, col), text); text is given as
\* the lines that "\n" separates in it
Insert(line, col, text) ==
    [t |-> "insert", sl |-> line, sc |-> col, el |-> line, ec |-> col,
     text |-> text]

\* builder.delete(new vscode.Range(sl, sc, el, ec))
Delete(sl, sc, el, ec) ==
    [t |-> "delete", sl |-> sl, sc |-> sc, el |-> el, ec |-> ec,
     text |-> <<>>]

\* '#pragma once\n\n'
PragmaText == <<PragmaOnce, Blank, Blank>>
\* (mutant) the header without its #define line
HeaderTextNoDefine(macro) == <<Ifndef(macro), Blank, Blank>>
\* `#ifndef ${macro}\n#define ${macro}\n\n`
HeaderText(macro) == <<Ifndef(macro), Define(macro), Blank, Blank>>
\* `\n#endif // ${macro}\n`
FooterText(macro) == <<Blank, Endif(macro), Blank>>

PosBefore(l1, c1, l2, c2) == l1 < l2 \/ (l1 = l2 /\ c1 < c2)

\* the order in which the host sorts the ranges of a batch: by end, then start
RangeBefore(a, b) ==
    \/ PosBefore(a.el, a.ec, b.el, b.ec)
    \/ /\ a.el = b.el /\ a.ec = b.ec
       /\ PosBefore(a.sl, a.sc, b.sl, b.sc)

\* the host refuses a batch in which a range starts before the end of a
\* range sorted ahead of it ("Overlapping ranges are not allowed!")
Overlapping(batch) ==
    \E i, j \in DOMAIN batch :
        /\ i # j
        /\ RangeBefore(batch[i], batch[j])
        /\ PosBefore(batch[j].sl, batch[j].sc, batch[i].el, batch[i].ec)

\* the host clamps a position to the document: a line past the end becomes
\* the end of the last line, a column past the end of its line that end
ValidLine(d, l) == Min(l, lineCount(d) - 1)
ValidCol(d, l, c) ==
    IF l > lineCount(d) - 1 THEN TextLen(lineAt(d, lineCount(d) - 1))
    ELSE Min(c, TextLen(lineAt(d, l)))

Validate(d, e) ==
    [e EXCEPT !.sl = ValidLine(d, e.sl), !.sc = ValidCol(d, e.sl, e.sc),
              !.el = ValidLine(d, e.el), !.ec = ValidCol(d, e.el, e.ec)]

\* two pieces of text on one line; every edit of the source falls on the
\* start or the end of a line, so one of the pieces is empty
Join(a, b) == IF a = Blank THEN b ELSE a

\* the text of line l before / from column c (c is 0 or the line's length)
Before(l, c) == IF c = 0 THEN Blank ELSE l
After(l, c) == IF c = 0 THEN l ELSE Blank

ApplyInsert(d, e) ==
    LET l == lineAt(d, e.sl)
        k == Len(e.text)
        new == IF k = 1
               THEN <<Join(Join(Before(l, e.sc), e.text[1]), After(l, e.sc))>>
               ELSE <<Join(Before(l, e.sc), e.text[1])>>
                    \o SubSeq(e.text, 2, k - 1)
                    \o <<Join(e.text[k], After(l, e.sc))>>
    IN  SubSeq(d, 1, e.sl) \o new \o SubSeq(d, e.sl + 2, Len(d))

ApplyDelete(d, e) ==
    SubSeq(d, 1, e.sl)
    \o <<Join(Before(lineAt(d, e.sl), e.sc), After(lineAt(d, e.el), e.ec))>>
    \o SubSeq(d, e.el + 2, Len(d))

ApplyEdit(d, e) == IF e.t = "insert" THEN ApplyInsert(d, e) ELSE ApplyDelete(d, e)

\* Edit i of the batch is applied before edit j when it lies further down
\* the document, so that the positions of the edits still to apply stay
\* those of the original document; at one position a deletion goes before
\* an insertion, and of two insertions the later of the batch goes first,
\* which leaves their texts in batch order.
AppliedBefore(batch, i, j) ==
    LET a == batch[i]
        b == batch[j]
    IN  \/ PosBefore(b.sl, b.sc, a.sl, a.sc)
        \/ /\ a.sl = b.sl /\ a.sc = b.sc
           /\ \/ a.t = "delete" /\ b.t = "insert"
              \/ a.t = b.t /\ i > j

RECURSIVE ApplyRest(_, _, _)
ApplyRest(d, batch, left) ==
    IF left = {} THEN d
    ELSE LET i == CHOOSE i \in left :
                      \A j \in left \ {i} : AppliedBefore(batch, i, j)
         IN  ApplyRest(ApplyEdit(d, batch[i]), batch, left \ {i})

\* the document after the host has applied the whole batch
ApplyBatch(d, batch) ==
    LET valid == [i \in DOMAIN batch |-> Validate(d, batch[i])]
    IN  ApplyRest(d, valid, DOMAIN valid)

----------------------------------------------------------------------------
(* The commands, up to their `await ed.edit(...)`.  A plan is what the     *)
(* synchronous part of a command decides: the message of an early return,  *)
(* or the edit batches it submits (one ed.edit call each) and the message  *)
(* it shows once the await is over.                                        *)

Refuse(msg) == [msg |-> msg, batches |-> <<>>]
Submit(batch, msg) == [msg |-> msg, batches |-> <<batch>>]

Refusals == {"NotAHeader", "AlreadyProtected"}

\* (mutant) the footer inserted at the start of the last line, not at the
\* end of the document
GuardInsertsFooterOnLastLine(f, d) ==
    LET macro == computeMacro(f)
    IN  << Insert(0, 0, HeaderText(macro)),
           Insert(lineCount(d) - 1, 0, FooterText(macro)) >>

\* the two insertions of a fresh guard
GuardInserts(f, d) ==
    LET macro == computeMacro(f)
    IN  << Insert(0, 0, HeaderText(macro)),
           Insert(lineCount(d), 0, FooterText(macro)) >>

\* (mutant) InsertGuard that looks for a pragma only, not for a guard
insertGuardPragmaOnly(f, d) ==
    IF ~isHeader(f) THEN Refuse("NotAHeader")
    ELSE IF hasPragmaOnce(d) THEN Refuse("AlreadyProtected")
    ELSE Submit(GuardInserts(f, d), "GuardInserted")

\* (mutant) InsertGuard that awaits one edit for the header and another for
\* the footer
insertGuardTwoEdits(f, d) ==
    IF ~isHeader(f) THEN Refuse("NotAHeader")
    ELSE IF hasPragmaOnce(d) \/ extractGuardMacro(d).found
    THEN Refuse("AlreadyProtected")
    ELSE [msg |-> "GuardInserted",
          batches |-> << <<GuardInserts(f, d)[1]>>, <<GuardInserts(f, d)[2]>> >>]

insertGuard(f, d) ==
    IF ~isHeader(f) THEN Refuse("NotAHeader")
    ELSE IF hasPragmaOnce(d) \/ extractGuardMacro(d).found
    THEN Refuse("AlreadyProtected")
    ELSE Submit(GuardInserts(f, d), "GuardInserted")

\* the two deletions of an extracted guard
GuardDeletes(d, guard) ==
    << Delete(guard.ifndefLine, 0, guard.defineLine + 1, 0),
       Delete(guard.endifLine, 0,
              guard.endifLine, TextLen(lineAt(d, guard.endifLine))) >>

\* (mutant) UsePragmaOnce that removes the guard without inserting the
\* pragma
usePragmaOnceDeletesOnly(f, d) ==
    IF ~isHeader(f) THEN Refuse("NotAHeader")
    ELSE IF hasPragmaOnce(d) THEN Refuse("AlreadyProtected")
    ELSE LET guard == extractGuardMacro(d)
         IN  Submit(IF guard.found THEN GuardDeletes(d, guard)
                    ELSE <<Insert(0, 0, PragmaText)>>,
                    "PragmaInserted")

usePragmaOnce(f, d) ==
    IF ~isHeader(f) THEN Refuse("NotAHeader")
    ELSE IF hasPragmaOnce(d) THEN Refuse("AlreadyProtected")
    ELSE LET guard == extractGuardMacro(d)
         IN  Submit(<<Insert(0, 0, PragmaText)>>
                    \o (IF guard.found THEN GuardDeletes(d, guard) ELSE <<>>),
                    "PragmaInserted")

\* the loop of toggleGuardOrPragma that deletes the pragma, from index i on
RECURSIVE PragmaDeletes(_, _)
PragmaDeletes(d, i) ==
    IF i >= Min(PragmaScanLimit, lineCount(d)) THEN <<>>
    ELSE IF MatchesPragma(lineAt(d, i))
    THEN <<Delete(i, 0, i, TextLen(lineAt(d, i)))>>
         \o (IF i + 1 < lineCount(d) /\ ~TrimNonEmpty(lineAt(d, i + 1))
             THEN <<Delete(i + 1, 0, i + 1, TextLen(lineAt(d, i + 1)))>>
             ELSE <<>>)
    ELSE IF TrimNonEmpty(lineAt(d, i)) THEN <<>>
    ELSE PragmaDeletes(d, i + 1)

\* (mutant) Toggle that removes a guard without putting the pragma in
toggleForgetsPragma(f, d) ==
    IF ~isHeader(f) THEN Refuse("NotAHeader")
    ELSE IF hasPragmaOnce(d)
    THEN Submit(PragmaDeletes(d, 0) \o GuardInserts(f, d), "PragmaToGuard")
    ELSE LET guard == extractGuardMacro(d)
         IN  IF guard.found
             THEN Submit(GuardDeletes(d, guard), "GuardToPragma")
             ELSE insertGuard(f, d)

\* (mutant) Toggle without the check of the file extension
toggleNoHeaderCheck(f, d) ==
    IF hasPragmaOnce(d)
    THEN Submit(PragmaDeletes(d, 0) \o GuardInserts(f, d), "PragmaToGuard")
    ELSE LET guard == extractGuardMacro(d)
         IN  IF guard.found
             THEN Submit(<<Insert(0, 0, PragmaText)>> \o GuardDeletes(d, guard),
                         "GuardToPragma")
             ELSE Submit(GuardInserts(f, d), "GuardInserted")

toggleGuardOrPragma(f, d) ==
    IF ~isHeader(f) THEN Refuse("NotAHeader")
    ELSE IF hasPragmaOnce(d)
    THEN Submit(PragmaDeletes(d, 0) \o GuardInserts(f, d), "PragmaToGuard")
    ELSE LET guard == extractGuardMacro(d)
         IN  IF guard.found
             THEN Submit(<<Insert(0, 0, PragmaText)>> \o GuardDeletes(d, guard),
                         "GuardToPragma")
             ELSE insertGuard(f, d)

Commands == {"InsertGuard", "UsePragmaOnce", "Toggle"}

Plan(op, f, d) ==
    CASE op = "InsertGuard" -> insertGuard(f, d)
      [] op = "UsePragmaOnce" -> usePragmaOnce(f, d)
      [] op = "Toggle" -> toggleGuardOrPragma(f, d)

----------------------------------------------------------------------------
(* The documents the model starts from *)

\* a/m.Hpp inside a workspace folder, a/m.c outside any
FileHpp == [dir |-> <<"a">>, base |-> <<"m", ".", "H", "p", "p">>, ws |-> TRUE]
FileC == [dir |-> <<"a">>, base |-> <<"m", ".", "c">>, ws |-> FALSE]
Files == {FileHpp, FileC}

\* the macro of the guards already in a document when it is opened (not the
\* macro computeMacro gives either file)
OldMacro == <<"X", "_", "H">>

InitLines ==
    { Blank, LineComment, Code, PragmaOnce,
      Ifndef(OldMacro), Define(OldMacro), Endif(<<>>), Endif(OldMacro) }

\* a document has at least one line (the empty document is one empty line)
InitDocs == UNION {[1 .. n -> InitLines] : n \in 1 .. MaxLines}

\* a second macro, of which OldMacro is a proper prefix
LongMacro == <<"X", "_", "H", "1">>

\* n empty lines
Pad(n) == [i \in 1 .. n |-> Blank]

\* documents made of a first part, a run of empty lines and up to MaxLines
\* free lines
Stretched(heads, pads, lines) ==
    { a \o Pad(n) \o b :
        a \in heads, n \in pads,
        b \in UNION {[1 .. k -> lines] : k \in 0 .. MaxLines} } \ {<<>>}

\* documents for hasPragmaOnce: the free lines start at the top or around
\* the scan limit, after nothing or after a line of code
PragmaLines == {Blank, LineComment, BlockComment, Code, PragmaOnce}
PragmaDocs ==
    Stretched({<<>>, <<Code>>},
              {0, PragmaScanLimit - 2, PragmaScanLimit - 1, PragmaScanLimit},
              PragmaLines)

\* documents for extractGuardMacro: the free lines start at the top, around
\* the scan limit, or around the end of the look-ahead of an #ifndef
GuardLines ==
    { Blank, Ifndef(OldMacro), Ifndef(LongMacro), Define(OldMacro),
      Define(LongMacro), Endif(<<>>), Endif(OldMacro) }
GuardDocs ==
    Stretched({<<>>, <<Ifndef(OldMacro)>>},
              {0, DefineLookahead - 2, DefineLookahead - 1,
               GuardScanLimit - 2, GuardScanLimit - 1, GuardScanLimit},
              GuardLines)

ScanDocs == PragmaDocs \cup GuardDocs

\* the paths given to computeMacro: a stem of up to MaxStem characters and
\* an extension, in the workspace folder itself or below it in folder a,
\* with or without a workspace folder known
StemChars == {"a", "1", "-", SharpS}
Stems == UNION {[1 .. n -> StemChars] : n \in 0 .. MaxStem}
PathExts ==
    { <<>>, <<".", "c">>, <<".", "h">>, <<".", "h", "p", "p">>,
      <<".", "h", "h">>, <<".", "h", "x", "x">> }
\* a file name is not empty
BaseNames == {st \o e : st \in Stems, e \in PathExts} \ {<<>>}
PathFiles ==
    { [dir |-> d, base |-> b, ws |-> w] :
        d \in {<<>>, <<"a">>}, w \in BOOLEAN, b \in BaseNames }

----------------------------------------------------------------------------
(* State machine *)

Done(op, pre, post, msg, edits, applied, startVer, endVer) ==
    [op |-> op, pre |-> pre, post |-> post, msg |-> msg, edits |-> edits,
     applied |-> applied, startVer |-> startVer, endVer |-> endVer]

\* the history keeps the last two completions
Record(h, e) == IF Len(h) < 2 THEN Append(h, e) ELSE <<h[2], e>>

Init ==
    /\ file \in Files
    /\ doc \in InitDocs
    /\ version = 1
    /\ inflight = <<>>
    /\ hist = <<>>
    /\ status = updateStatusBarForDoc(file, doc)
    /\ ops = 0

\* A command is invoked (withEditor(fn)) and runs to its first suspension:
\* it returns early with a message, or it submits its batch, which the host
\* refuses at once when ranges overlap (ed.edit rejects and the command
\* throws), or else queues for the document.
Invoke(op) ==
    /\ ops < MaxOps
    /\ Len(inflight) < MaxInFlight
    /\ ops' = ops + 1
    /\ LET plan == Plan(op, file, doc)
       IN  IF plan.batches = <<>>
           THEN /\ hist' = Record(hist, Done(op, doc, doc, plan.msg, 0, FALSE,
                                             version, version))
                /\ UNCHANGED inflight
           ELSE IF Overlapping(Head(plan.batches))
           THEN /\ hist' = Record(hist, Done(op, doc, doc, "Threw",
                                             Len(plan.batches), FALSE,
                                             version, version))
                /\ UNCHANGED inflight
           ELSE /\ inflight' = Append(inflight,
                        [op |-> op, pre |-> doc, msg |-> plan.msg,
                         batches |-> plan.batches,
                         edits |-> Len(plan.batches),
                         ver |-> version, startVer |-> version])
                /\ UNCHANGED hist
    /\ UNCHANGED <<file, doc, version, status>>

InvokeInsertGuard == Invoke("InsertGuard")
InvokeUsePragmaOnce == Invoke("UsePragmaOnce")
InvokeToggle == Invoke("Toggle")

\* The host serves the oldest submitted batch: it applies the whole batch
\* when the document still has the version the batch was planned on, and
\* resolves false without touching the document otherwise.  The command
\* then resumes after its await: it ignores the result, shows its message
\* and refreshes the status bar.
Commit ==
    /\ inflight # <<>>
    /\ LET r == Head(inflight)
           accepted == r.ver = version
           after == IF accepted THEN ApplyBatch(doc, Head(r.batches)) ELSE doc
       IN  /\ doc' = after
           /\ version' = IF accepted THEN version + 1 ELSE version
           /\ inflight' = Tail(inflight)
           /\ hist' = Record(hist, Done(r.op, r.pre, after, r.msg, r.edits,
                                        accepted, r.startVer, version'))
           /\ status' = updateStatusBarForDoc(file, after)
    /\ UNCHANGED <<file, ops>>

Next ==
    \/ InvokeInsertGuard
    \/ InvokeUsePragmaOnce
    \/ InvokeToggle
    \/ Commit

Spec == Init /\ [][Next]_vars

\* A call of one of the pure functions on the opened file or document; its
\* return value is kept in the history.
Returned(fn, ret) == [op |-> fn, ret |-> ret]

CallComputeMacro ==
    /\ hist = <<>>
    /\ hist' = <<Returned("computeMacro", computeMacro(file))>>
    /\ UNCHANGED <<file, doc, version, inflight, status, ops>>

\* computeMacro applied to every path of PathFiles
MacroInit ==
    /\ file \in PathFiles
    /\ doc = <<Blank>>
    /\ version = 1
    /\ inflight = <<>>
    /\ hist = <<>>
    /\ status = updateStatusBarForDoc(file, doc)
    /\ ops = 0

MacroNext == CallComputeMacro

MacroSpec == MacroInit /\ [][MacroNext]_vars

CallHasPragmaOnce ==
    /\ hist = <<>>
    /\ hist' = <<Returned("hasPragmaOnce", hasPragmaOnce(doc))>>
    /\ UNCHANGED <<file, doc, version, inflight, status, ops>>

CallExtractGuardMacro ==
    /\ hist = <<>>
    /\ hist' = <<Returned("extractGuardMacro", extractGuardMacro(doc))>>
    /\ UNCHANGED <<file, doc, version, inflight, status, ops>>

\* hasPragmaOnce and extractGuardMacro applied to every document of ScanDocs
ScanInit ==
    /\ file = FileHpp
    /\ doc \in ScanDocs
    /\ version = 1
    /\ inflight = <<>>
    /\ hist = <<>>
    /\ status = updateStatusBarForDoc(file, doc)
    /\ ops = 0

ScanNext == CallHasPragmaOnce \/ CallExtractGuardMacro

ScanSpec == ScanInit /\ [][ScanNext]_vars

\* The same commands on a header whose documents are one line longer and
\* hold only guard directives and comment lines: the guard of such a
\* document can have lines of its own between #ifndef and #define.
ConvertLines ==
    {LineComment, Ifndef(OldMacro), Define(OldMacro), Endif(OldMacro)}

ConvertDocs == UNION {[1 .. n -> ConvertLines] : n \in 1 .. MaxLines + 1}

ConvertInit ==
    /\ file = FileHpp
    /\ doc \in ConvertDocs
    /\ version = 1
    /\ inflight = <<>>
    /\ hist = <<>>
    /\ status = updateStatusBarForDoc(file, doc)
    /\ ops = 0

ConvertSpec == ConvertInit /\ [][Next]_vars

----------------------------------------------------------------------------
(* Vocabulary of the properties *)

Completed == {hist[i] : i \in DOMAIN hist}

SuccessMessages ==
    {"GuardInserted", "PragmaInserted", "PragmaToGuard", "GuardToPragma"}

\* the command was decided on the document it scanned: it returned early,
\* the host refused its batch for overlapping ranges, or the host applied
\* its batch (no other command's edit came between its scan and its commit)
Settled(h) == h.msg \in Refusals \/ h.msg = "Threw" \/ h.applied

\* hist[i + 1] was invoked on the document hist[i] left, with nothing between
InSuccession(i) ==
    /\ i \in DOMAIN hist /\ i + 1 \in DOMAIN hist
    /\ Settled(hist[i]) /\ Settled(hist[i + 1])
    /\ hist[i + 1].startVer = hist[i].endVer
    /\ hist[i + 1].pre = hist[i].post

\* the transition the state machine of the specification gives Toggle
ToggleTarget(state) ==
    CASE state = "None" -> "Guard"
      [] state = "Guard" -> "PragmaOnce"
      [] state = "PragmaOnce" -> "Guard"

Count(d, P(_)) == Cardinality({i \in DOMAIN d : P(d[i])})

----------------------------------------------------------------------------
(* C1 *)

\* C1: an InsertGuard whose edit is applied to a header document in state
\* None leaves a document in state Guard from which extractGuardMacro
\* returns a guard whose macro is computeMacro of the path.
C1_InsertThenExtract ==
    \A h \in Completed :
        (/\ h.op = "InsertGuard" /\ isHeader(file) /\ h.applied
         /\ ProtectionState(h.pre) = "None")
        => /\ extractGuardMacro(h.post).found
           /\ extractGuardMacro(h.post).macro = computeMacro(file)
           /\ ProtectionState(h.post) = "Guard"

\* an applied InsertGuard on an unprotected document that held a lone
\* #ifndef and an #endif of another macro
C1_Witness ==
    \E h \in Completed :
        /\ h.op = "InsertGuard" /\ isHeader(file) /\ h.applied
        /\ ProtectionState(h.pre) = "None"
        /\ \E i \in DOMAIN h.pre : h.pre[i].k = "ifndef"
        /\ \E i \in DOMAIN h.pre : h.pre[i] = Endif(OldMacro)
        /\ extractGuardMacro(h.post).macro = computeMacro(file)

----------------------------------------------------------------------------
(* C2 *)

\* C2 (as claimed): every settled Toggle on a header document moves the
\* protection state as the state machine says, None -> Guard,
\* Guard -> PragmaOnce, PragmaOnce -> Guard.
C2_ToggleFollowsStateMachine ==
    \A h \in Completed :
        (h.op = "Toggle" /\ isHeader(file) /\ Settled(h))
        => ProtectionState(h.post) = ToggleTarget(ProtectionState(h.pre))

----------------------------------------------------------------------------
(* C3 *)

\* C3 (as claimed): two Toggles in succession leave a header document in
\* the protection state it had before the first, whatever that state was.
C3_DoubleToggleAnyState ==
    \A i \in DOMAIN hist :
        (/\ InSuccession(i) /\ isHeader(file)
         /\ hist[i].op = "Toggle" /\ hist[i + 1].op = "Toggle")
        => ProtectionState(hist[i + 1].post) = ProtectionState(hist[i].pre)

\* C3 (amended): two Toggles in succession leave a header document that was
\* in state Guard or PragmaOnce in the state it had before the first.
C3_DoubleToggleProtected ==
    \A i \in DOMAIN hist :
        (/\ InSuccession(i) /\ isHeader(file)
         /\ hist[i].op = "Toggle" /\ hist[i + 1].op = "Toggle"
         /\ ProtectionState(hist[i].pre) \in {"Guard", "PragmaOnce"})
        => ProtectionState(hist[i + 1].post) = ProtectionState(hist[i].pre)

\* two applied Toggles in succession, from Guard through PragmaOnce to Guard
C3_Witness ==
    \E i \in DOMAIN hist :
        /\ InSuccession(i) /\ isHeader(file)
        /\ hist[i].op = "Toggle" /\ hist[i + 1].op = "Toggle"
        /\ hist[i].applied /\ hist[i + 1].applied
        /\ ProtectionState(hist[i].pre) = "Guard"
        /\ ProtectionState(hist[i].post) = "PragmaOnce"
        /\ ProtectionState(hist[i + 1].post) = "Guard"

----------------------------------------------------------------------------
(* C4 *)

\* the command is one the specification refuses as already protected
RefusedAsProtected(h) ==
    \/ h.op = "InsertGuard"
       /\ (hasPragmaOnce(h.pre) \/ extractGuardMacro(h.pre).found)
    \/ h.op = "UsePragmaOnce" /\ hasPragmaOnce(h.pre)

\* C4: on a header document, InsertGuard when a pragma or a guard is found
\* and UsePragmaOnce when a pragma is found report AlreadyProtected, submit
\* no edit and leave every line of the document as it was.
C4_RefusedIsNoOp ==
    \A h \in Completed :
        (isHeader(file) /\ RefusedAsProtected(h))
        => /\ h.msg = "AlreadyProtected"
           /\ h.edits = 0
           /\ ~h.applied
           /\ h.post = h.pre

\* InsertGuard refused on a document that holds a guard and no pragma
C4_Witness ==
    \E h \in Completed :
        /\ isHeader(file) /\ h.op = "InsertGuard"
        /\ ~hasPragmaOnce(h.pre) /\ extractGuardMacro(h.pre).found
        /\ h.msg = "AlreadyProtected" /\ h.post = h.pre

----------------------------------------------------------------------------
(* C5 *)

\* C5: on a file whose extension, lower-cased, is none of .h .hpp .hh .hxx
\* every command reports NotAHeader and submits no edit, and the document
\* stays the one that was opened.
C5_NotAHeader ==
    ~isHeader(file)
    => /\ inflight = <<>>
       /\ version = 1
       /\ \A h \in Completed :
              /\ h.msg = "NotAHeader" /\ h.edits = 0 /\ ~h.applied
              /\ h.pre = doc /\ h.post = doc

\* the three commands refused on a .c file that holds a guard
C5_Witness ==
    /\ ~isHeader(file)
    /\ extractGuardMacro(doc).found
    /\ \E i, j \in DOMAIN hist :
           /\ hist[i].op = "Toggle" /\ hist[i].msg = "NotAHeader"
           /\ hist[j].op = "UsePragmaOnce" /\ hist[j].msg = "NotAHeader"

----------------------------------------------------------------------------
(* C6 *)

\* line l occurs fewer times in document b than in document a
Fewer(a, b, l) ==
    Cardinality({i \in DOMAIN b : b[i] = l})
        < Cardinality({i \in DOMAIN a : a[i] = l})

\* C6 (as claimed): every settled UsePragmaOnce on a header document
\* without a pragma leaves the document in state PragmaOnce, and the
\* #ifndef line, the #define line and the #endif line of an extracted guard
\* are gone from it.
C6_UsePragmaOnceConverts ==
    \A h \in Completed :
        (/\ h.op = "UsePragmaOnce" /\ isHeader(file) /\ Settled(h)
         /\ ~hasPragmaOnce(h.pre))
        => /\ ProtectionState(h.post) = "PragmaOnce"
           /\ LET guard == extractGuardMacro(h.pre)
              IN  guard.found
                  => /\ Fewer(h.pre, h.post, lineAt(h.pre, guard.ifndefLine))
                     /\ Fewer(h.pre, h.post, lineAt(h.pre, guard.defineLine))
                     /\ Fewer(h.pre, h.post, lineAt(h.pre, guard.endifLine))

----------------------------------------------------------------------------
(* C7 *)

\* C7 (as claimed): an applied Toggle on a header document in state
\* PragmaOnce removes the #pragma once line that hasPragmaOnce detected and
\* leaves the document in state Guard.
C7_ToggleRemovesPragma ==
    \A h \in Completed :
        (/\ h.op = "Toggle" /\ isHeader(file) /\ h.applied
         /\ ProtectionState(h.pre) = "PragmaOnce")
        => /\ Count(h.post, MatchesPragma) = Count(h.pre, MatchesPragma) - 1
           /\ ProtectionState(h.post) = "Guard"

----------------------------------------------------------------------------
(* C8 *)

\* C8 (as claimed): two Toggles in succession on a header document in state
\* Guard leave it in state Guard with the macro computeMacro gives the path.
C8_RoundTripMacro ==
    \A i \in DOMAIN hist :
        (/\ InSuccession(i) /\ isHeader(file)
         /\ hist[i].op = "Toggle" /\ hist[i + 1].op = "Toggle"
         /\ ProtectionState(hist[i].pre) = "Guard")
        => /\ ProtectionState(hist[i + 1].post) = "Guard"
           /\ extractGuardMacro(hist[i + 1].post).macro = computeMacro(file)

----------------------------------------------------------------------------
(* C9 *)

\* the preconditions of a command, as the specification lists them
Preconditions(op, f, d) ==
    /\ isHeader(f)
    /\ op = "InsertGuard" => ~hasPragmaOnce(d) /\ ~extractGuardMacro(d).found
    /\ op = "UsePragmaOnce" => ~hasPragmaOnce(d)

\* C9: a command submits one edit batch when its preconditions pass and
\* none when they fail; a command in flight waits on that single batch; and
\* the document a command leaves is the one it scanned, either untouched or
\* with the whole batch applied.
C9_OneAtomicBatch ==
    /\ \A h \in Completed :
           /\ h.edits = IF Preconditions(h.op, file, h.pre) THEN 1 ELSE 0
           /\ h.applied => h.edits = 1 /\ h.endVer = h.startVer + 1
           /\ Settled(h) =>
                  h.post = IF h.applied
                           THEN ApplyBatch(h.pre,
                                    Head(Plan(h.op, file, h.pre).batches))
                           ELSE h.pre
    /\ \A i \in DOMAIN inflight :
           /\ Preconditions(inflight[i].op, file, inflight[i].pre)
           /\ Len(inflight[i].batches) = 1
           /\ inflight[i].edits = 1

\* a Toggle from PragmaOnce whose one batch held two deletions and two
\* insertions, applied
C9_Witness ==
    \E h \in Completed :
        /\ h.op = "Toggle" /\ h.applied /\ h.edits = 1
        /\ Len(Head(Plan(h.op, file, h.pre).batches)) = 4
        /\ h.post # h.pre

----------------------------------------------------------------------------
(* C10 *)

\* C10 (as claimed): a command whose edit the host did not apply reports no
\* success to the user.
C10_FailedEditReportsNoSuccess ==
    \A h \in Completed :
        (h.edits > 0 /\ ~h.applied) => h.msg \notin SuccessMessages

----------------------------------------------------------------------------
(* C11 *)

\* '#ifndef M\n#define M\n\n' + T + '\n#endif // M\n', line by line: the
\* header's third "\n" ends an empty line before T, the footer's first "\n"
\* ends the last line of T and its second leaves an empty last line
GuardedText(T, M) ==
    <<Line("ifndef", M), Line("define", M), Line("blank", <<>>)>>
    \o T
    \o <<Line("endif", M), Line("blank", <<>>)>>

\* C11: an applied InsertGuard on a header document T in state None with
\* M = computeMacro(path) leaves exactly the three-line header, T unchanged,
\* and the two-line footer.
C11_InsertGuardExactText ==
    \A h \in Completed :
        (/\ h.op = "InsertGuard" /\ isHeader(file) /\ h.applied
         /\ ProtectionState(h.pre) = "None")
        => h.post = GuardedText(h.pre, computeMacro(file))

\* an applied InsertGuard on the empty document
C11_Witness ==
    \E h \in Completed :
        /\ h.op = "InsertGuard" /\ h.applied /\ h.pre = <<Blank>>
        /\ h.post = <<Ifndef(computeMacro(file)), Define(computeMacro(file)),
                      Blank, Blank, Endif(computeMacro(file)), Blank>>

----------------------------------------------------------------------------
(* C12 *)

\* sequence a is b with some of b's elements left out
RECURSIVE IsSubsequence(_, _)
IsSubsequence(a, b) ==
    IF a = <<>> THEN TRUE
    ELSE IF b = <<>> THEN FALSE
    ELSE IF Head(a) = Head(b) THEN IsSubsequence(Tail(a), Tail(b))
    ELSE IsSubsequence(a, Tail(b))

\* the lines of d whose zero-based index is not in the set skip, in order
RECURSIVE LinesExcept(_, _, _)
LinesExcept(d, skip, i) ==
    IF i >= Len(d) THEN <<>>
    ELSE (IF i \in skip THEN <<>> ELSE <<lineAt(d, i)>>)
         \o LinesExcept(d, skip, i + 1)

\* the lines of d around its guard: all but the #ifndef, #define and #endif
SurroundingContent(d) ==
    LET guard == extractGuardMacro(d)
    IN  LinesExcept(d, {guard.ifndefLine, guard.defineLine, guard.endifLine}, 0)

\* C12 (as claimed): an applied UsePragmaOnce or Toggle on a header document
\* in state Guard keeps every line other than the guard's #ifndef, #define
\* and #endif lines, unchanged and in the same relative order.
C12_ConversionKeepsContent ==
    \A h \in Completed :
        (/\ h.op \in {"UsePragmaOnce", "Toggle"} /\ isHeader(file) /\ h.applied
         /\ ProtectionState(h.pre) = "Guard")
        => IsSubsequence(SurroundingContent(h.pre), h.post)

----------------------------------------------------------------------------
(* C13 *)

\* C13 (as claimed): at most one command is suspended on its edit at any
\* time, and the edit of a suspended command was planned from the content
\* the document has now.
C13_NoConcurrentEdits ==
    /\ Len(inflight) <= 1
    /\ \A i \in DOMAIN inflight : inflight[i].pre = doc

----------------------------------------------------------------------------
(* C14 *)

\* the path computeMacro transforms: relative to the workspace folder when
\* one is known, else the base file name
PathOf(f) == IF f.ws THEN f.dir \o (IF f.dir = <<>> THEN <<>> ELSE <<"/">>) \o f.base
             ELSE f.base

\* s ends in _H, _HPP, _HH or _HXX
EndsInGuardSuffix(s) ==
    \E suf \in { <<"_", "H">>, <<"_", "H", "P", "P">>, <<"_", "H", "H">>,
                 <<"_", "H", "X", "X">> } :
        Len(s) >= Len(suf) /\ SubSeq(s, Len(s) - Len(suf) + 1, Len(s)) = suf

\* C14 (as claimed): computeMacro of a non-empty path has the length of the
\* path or two more, holds only characters of [A-Z0-9_], ends in _H, _HPP,
\* _HH or _HXX, has "_H" appended only when the transformed path has no such
\* ending, and is the same for every file with that path.
C14_MacroShape ==
    \A h \in Completed :
        h.op = "computeMacro"
        => LET p == PathOf(file)
               m == h.ret
           IN  /\ Len(m) \in {Len(p), Len(p) + 2}
               /\ \A i \in DOMAIN m : m[i] \in MacroChars
               /\ EndsInGuardSuffix(m)
               /\ Len(m) = Len(p) + 2
                  => ~EndsInGuardSuffix(SubSeq(m, 1, Len(m) - 2))
               /\ \A g \in PathFiles : PathOf(g) = p => computeMacro(g) = m

----------------------------------------------------------------------------
(* C15 *)

\* C15 (as claimed): computeMacro of a non-empty path is a non-empty string
\* of letters, digits and underscores that does not begin with a digit.
C15_MacroIsIdentifier ==
    \A h \in Completed :
        h.op = "computeMacro"
        => /\ h.ret # <<>>
           /\ \A i \in DOMAIN h.ret : h.ret[i] \in WordChars
           /\ h.ret[1] \notin Digits

----------------------------------------------------------------------------
(* C16 *)

\* line i of d is a #pragma once directive below index 50 and every line
\* above it is blank or starts with // or with /*
PragmaAtTop(d, i) ==
    /\ i < 50
    /\ d[i + 1].k = "pragma"
    /\ \A j \in 0 .. i - 1 : d[j + 1].k \in {"blank", "lcomment", "bcomment"}

\* C16: hasPragmaOnce returns true exactly when some line below index
\* min(50, lineCount) is a #pragma once directive with only blank lines and
\* lines starting with // or /* above it.
C16_HasPragmaOnceIff ==
    \A h \in Completed :
        h.op = "hasPragmaOnce"
        => (h.ret <=> \E i \in 0 .. Len(doc) - 1 : PragmaAtTop(doc, i))

\* hasPragmaOnce returns false on a document whose only directive is at
\* index 50, below fifty empty lines
C16_Witness ==
    \E h \in Completed :
        /\ h.op = "hasPragmaOnce" /\ ~h.ret
        /\ Len(doc) > 50 /\ doc[51] = PragmaOnce
        /\ \A j \in 1 .. 50 : doc[j] = Blank

----------------------------------------------------------------------------
(* Vocabulary of the claims on extractGuardMacro *)

Indices(d) == 0 .. Len(d) - 1

Least(S) == CHOOSE i \in S : \A j \in S : i <= j
Greatest(S) == CHOOSE i \in S : \A j \in S : j <= i

\* the lines below index 60 that match '#ifndef <MACRO>'
IfndefLines(d) ==
    {i \in Indices(d) : i < 60 /\ IfndefCapture(lineAt(d, i)) # <<>>}

\* the macro of the first #ifndef line
FirstMacro(d) == IfndefCapture(lineAt(d, Least(IfndefLines(d))))

\* the lines below index 60, among the five after the first #ifndef line,
\* that match '#define <MACRO>' with the macro of that #ifndef
PairedDefines(d) ==
    {j \in Indices(d) :
        /\ j < 60
        /\ Least(IfndefLines(d)) < j /\ j <= Least(IfndefLines(d)) + 5
        /\ MatchesDefine(lineAt(d, j), FirstMacro(d))}

\* the #ifndef/#define pair of a guard is there
HeaderPairFound(d) == IfndefLines(d) # {} /\ PairedDefines(d) # {}

\* the #endif lines, and those that name the macro as a whole word
EndifLines(d) == {k \in Indices(d) : lineAt(d, k).k = "endif"}
EndifLinesOf(d, M) == {k \in EndifLines(d) : lineAt(d, k).name = M}

----------------------------------------------------------------------------
(* C17 *)

\* C17: when the #ifndef/#define pair for macro M is found, endifLine is
\* the greatest index of an #endif line naming M if there is one, else the
\* greatest index of any #endif line, and without any #endif line the
\* extraction returns not-found.
C17_EndifChoice ==
    \A h \in Completed :
        (h.op = "extractGuardMacro" /\ HeaderPairFound(doc))
        => LET annotated == EndifLinesOf(doc, FirstMacro(doc))
           IN  IF annotated # {}
               THEN h.ret.found /\ h.ret.endifLine = Greatest(annotated)
               ELSE IF EndifLines(doc) # {}
               THEN h.ret.found /\ h.ret.endifLine = Greatest(EndifLines(doc))
               ELSE ~h.ret.found

\* extraction on a guard whose annotated #endif is followed by a bare one:
\* the annotated line is returned
C17_Witness ==
    \E h \in Completed :
        /\ h.op = "extractGuardMacro"
        /\ doc = <<Ifndef(OldMacro), Define(OldMacro), Endif(OldMacro),
                   Endif(<<>>)>>
        /\ h.ret.found /\ h.ret.endifLine = 2

----------------------------------------------------------------------------
(* C18 *)

\* i is the least element of S
IsLeast(i, S) == i \in S /\ \A j \in S : i <= j

\* C18: a returned guard has ifndefLine < defineLine <= ifndefLine + 5, both
\* below min(60, lineCount); ifndefLine is the first line of the document
\* that matches '#ifndef <MACRO>', macro is its macro, and defineLine is the
\* first line after it that matches '#define <MACRO>' with that macro.
C18_GuardInfoInvariant ==
    \A h \in Completed :
        (h.op = "extractGuardMacro" /\ h.ret.found)
        => LET g == h.ret
           IN  /\ g.ifndefLine < g.defineLine
               /\ g.defineLine <= g.ifndefLine + 5
               /\ g.ifndefLine < 60 /\ g.ifndefLine < Len(doc)
               /\ g.defineLine < 60 /\ g.defineLine < Len(doc)
               /\ IsLeast(g.ifndefLine,
                      {i \in Indices(doc) : IfndefCapture(lineAt(doc, i)) # <<>>})
               /\ g.macro = IfndefCapture(lineAt(doc, g.ifndefLine))
               /\ IsLeast(g.defineLine,
                      {j \in Indices(doc) :
                          /\ j > g.ifndefLine
                          /\ MatchesDefine(lineAt(doc, j), g.macro)})

\* a guard returned with its #define five lines below its #ifndef, the
\* last line of the look-ahead
C18_Witness ==
    \E h \in Completed :
        /\ h.op = "extractGuardMacro" /\ h.ret.found
        /\ h.ret.ifndefLine = 0 /\ h.ret.defineLine = 5
        /\ h.ret.macro = OldMacro

----------------------------------------------------------------------------
(* C19 *)

\* C19: when the first #ifndef line below index min(60, lineCount) has no
\* #define of its macro within the next five lines, extractGuardMacro
\* returns not-found, whatever follows.
C19_FirstIfndefOnly ==
    \A h \in Completed :
        (/\ h.op = "extractGuardMacro"
         /\ IfndefLines(doc) # {} /\ PairedDefines(doc) = {})
        => ~h.ret.found

\* not-found on a lone #ifndef followed by a well-formed guard of another
\* macro
C19_Witness ==
    \E h \in Completed :
        /\ h.op = "extractGuardMacro" /\ ~h.ret.found
        /\ doc = <<Ifndef(OldMacro), Ifndef(LongMacro), Define(LongMacro),
                   Endif(<<>>)>>

----------------------------------------------------------------------------
(* C20 *)

\* C20 (as claimed): the endifLine of a returned guard is the last line of
\* the document that matches #endif: no line below it matches.
C20_EndifIsLast ==
    \A h \in Completed :
        (h.op = "extractGuardMacro" /\ h.ret.found)
        => /\ h.ret.endifLine \in EndifLines(doc)
           /\ \A k \in EndifLines(doc) : k <= h.ret.endifLine

\* C20 (amended): the endifLine of a returned guard matches #endif and no
\* line below it is an #endif naming the macro; when no #endif line of the
\* document names the macro, no line below it matches #endif at all.
C20_EndifIsLastOfItsKind ==
    \A h \in Completed :
        (h.op = "extractGuardMacro" /\ h.ret.found)
        => /\ h.ret.endifLine \in EndifLines(doc)
           /\ \A k \in EndifLinesOf(doc, h.ret.macro) : k <= h.ret.endifLine
           /\ EndifLinesOf(doc, h.ret.macro) = {}
              => \A k \in EndifLines(doc) : k <= h.ret.endifLine

\* a returned guard whose endifLine names the macro and has a bare #endif
\* below it
C20_Witness ==
    \E h \in Completed :
        /\ h.op = "extractGuardMacro" /\ h.ret.found
        /\ lineAt(doc, h.ret.endifLine).name = h.ret.macro
        /\ \E k \in EndifLines(doc) :
               k > h.ret.endifLine /\ lineAt(doc, k).name = <<>>

----------------------------------------------------------------------------
(* C21 *)

\* the deletions of a batch
Deletions(batch) == {i \in DOMAIN batch : batch[i].t = "delete"}

\* two regions of the document have a stretch of text in common
RegionsOverlap(a, b) ==
    /\ PosBefore(a.sl, a.sc, b.el, b.ec)
    /\ PosBefore(b.sl, b.sc, a.el, a.ec)

\* C21 (as claimed): in the batch a UsePragmaOnce or a Toggle stages, no two
\* deletions overlap, and the #endif line of an extracted guard lies
\* outside the lines ifndefLine .. defineLine that its header span covers.
C21_DeletionsDisjoint ==
    \A h \in Completed :
        (h.op \in {"UsePragmaOnce", "Toggle"} /\ h.edits > 0)
        => LET batch == Head(Plan(h.op, file, h.pre).batches)
               guard == extractGuardMacro(h.pre)
           IN  /\ \A i, j \in Deletions(batch) :
                      i # j => ~RegionsOverlap(batch[i], batch[j])
               /\ (~hasPragmaOnce(h.pre) /\ guard.found)
                  => guard.endifLine \notin guard.ifndefLine .. guard.defineLine

----------------------------------------------------------------------------
(* C22 *)

\* C22 (as claimed): the endifLine of a returned guard is below its
\* defineLine.
C22_EndifAfterDefine ==
    \A h \in Completed :
        (h.op = "extractGuardMacro" /\ h.ret.found)
        => h.ret.defineLine < h.ret.endifLine

----------------------------------------------------------------------------
(* C23 *)

Protected(d) == ProtectionState(d) \in {"Guard", "PragmaOnce"}

\* C23: no step of any command takes a header document from state Guard or
\* PragmaOnce to state None, so a document that is protected stays
\* protected through every sequence of commands.
C23_ProtectionNeverLost ==
    [][(isHeader(file) /\ Protected(doc)) => Protected(doc')]_vars

\* a Toggle applied to a document whose pragma follows a comment line: the
\* pragma stays, the guard is put around it, and the state is Guard
C23_Witness ==
    \E h \in Completed :
        /\ h.op = "Toggle" /\ isHeader(file) /\ h.applied
        /\ h.pre = <<LineComment, PragmaOnce>>
        /\ ProtectionState(h.pre) = "PragmaOnce"
        /\ h.post = doc /\ ProtectionState(doc) = "Guard"

====
